---- MODULE Spec2Model ----
(***************************************************************************)
(* Client-side session contract of the dashboard: the AuthProvider        *)
(* (contexts/AuthContext), the axios client with its two interceptors     *)
(* (utils/api.js), the login form (components/LoginPage.js), the route    *)
(* guard (App.js) and the callers that issue requests (Sidebar,           *)
(* Dashboard).                                                             *)
(*                                                                         *)
(* The browser runs one task at a time.  A response is delivered in one   *)
(* task: the response interceptor runs first, then the awaiting async     *)
(* function resumes as a microtask of the same task, then the function    *)
(* that awaited it.  Each *Response action is that whole task; the event  *)
(* record keeps what the interceptor left in local storage.               *)
(*                                                                         *)
(* Spec follows the session: login, startup verification, logout, the     *)
(* Dashboard's requests and the 401 interceptor.  SpecAccount replaces    *)
(* the Dashboard by a view that calls updateUser, changePassword,         *)
(* setup2FA and enable2FA.  SpecViews follows the views of a signed-in    *)
(* session and their interval timers.  SpecMock applies mockAuth.login.   *)
(* SpecLogin is the session under fair delivery of answers.                *)
(* SpecDashboard follows the data of the Dashboard through overlapping     *)
(* polls, SpecFiles and SpecUploads the file list and the uploads of       *)
(* FileManager, SpecRDP the connection sequence of RDPClient and           *)
(* SpecSettings the Settings form.                                         *)
(***************************************************************************)
EXTENDS Integers, Sequences, FiniteSets, TLC

\* ------------------------------------------------------------------ bounds
\* distinct access tokens the backend hands out
NumTokens == 2
\* 401 responses handled between two page loads
MaxRedirects == 2
\* upload-progress intervals running at once
MaxUploads == 2
\* readings of Date.now()
MaxNow == 2
\* calls of loadDashboardData between two page loads
MaxPolls == 2
\* firings of the LogsViewer interval
MaxTicks == 3
\* files listed by FileManager, those being uploaded included
MaxFiles == 4
\* calls of handleConnect inside their loop at once
MaxConnects == 2

\* ------------------------------------------------------------ value spaces
\* null / undefined / absent key: the empty tuple; a present value x: <<x>>
Null == <<>>
Some(x) == <<x>>

Tokens == 1..NumTokens
Usernames == {"admin"}

\* a user object; totpEnabled = "undefined" is the fallback object { username }
BackendUsers == [username : Usernames, totpEnabled : {"true", "false"}]
FallbackUser(username) == [username |-> username, totpEnabled |-> "undefined"]

\* JSON.stringify of a user object: the list of its defined members
JSONstringify(o) ==
    IF o.totpEnabled = "undefined"
    THEN << <<"username", o.username>> >>
    ELSE << <<"username", o.username>>, <<"totpEnabled", o.totpEnabled>> >>

\* HTTP outcomes of a request; 0 stands for "no response" (network error,
\* timeout), in which case error.response is undefined
Statuses == {0, 200, 400, 401, 500}

Paths == {"/login", "/"}

DashboardEndpoints == {"/dashboard/stats", "/dashboard/metrics/current", "/dashboard/sessions/active"}

VARIABLES
    lsToken,          \* localStorage['authToken']: Null or Some(token)
    lsUser,           \* localStorage['userData']: Null or Some(JSON text)
    isAuthenticated,  \* AuthProvider state
    user,             \* AuthProvider state: Null or Some(user object)
    loading,          \* AuthProvider state
    path,             \* the router's current location
    requiresTOTP,     \* LoginPage state (FALSE while LoginPage is not mounted)
    inflight,         \* requests dispatched and not yet answered
    navPending,       \* window.location.href was assigned, the page not yet unloaded
    redirects,        \* times the 401 branch of the interceptor ran since page load
    ev,               \* the last event handled (see Event)
    intervals,        \* the views whose effect has an interval timer running
    isAutoRefresh,    \* LogsViewer state (TRUE while LogsViewer is not mounted)
    uploadProgress,   \* FileManager state (0 while FileManager is not mounted)
    isUploading,      \* FileManager state (FALSE while FileManager is not mounted)
    uploadTimers,     \* upload-progress intervals of the mounted FileManager
    orphanTimers,     \* upload-progress intervals of FileManagers that unmounted
    dashboard,        \* Dashboard state: stats, metrics, sessions, loading; polls started
    mockLogs,         \* the fixture utils/mockData exports (never changes)
    logs,             \* LogsViewer state: the list of log ids, newest first
    clock,            \* Date.now() as read by the LogsViewer interval
    files,            \* FileManager state: the names of the listed files, in order
    selectedFiles,    \* FileManager state: the selected names, in order
    uploads,          \* the uploadedFiles of the mounted FileManager's running intervals
    isConnected,      \* RDPClient state
    isConnecting,     \* RDPClient state
    connects,         \* the calls of handleConnect that are inside their loop
    settings,         \* Settings state: the value of each setting
    hasChanges        \* Settings state

\* the state of the views inside the protected shell
\* the data the views hold
dashVars == <<dashboard>>
logVars == <<mockLogs, logs, clock>>
fileVars == <<files, selectedFiles, uploads>>
rdpVars == <<isConnected, isConnecting, connects>>
settingsVars == <<settings, hasChanges>>
compVars == <<dashVars, logVars, fileVars, rdpVars, settingsVars>>

viewVars == <<intervals, isAutoRefresh, uploadProgress, isUploading, uploadTimers, orphanTimers,
              compVars>>

vars == <<lsToken, lsUser, isAuthenticated, user, loading, path, requiresTOTP,
          inflight, navPending, redirects, ev, viewVars>>

\* The last event: what happened (op); for a response task the answer
\* (resp), the local storage as the response interceptor left it (store),
\* whether the 401 branch had run while the request was in flight (overlap)
\* and whether the request carried another token than the one stored when the
\* answer arrived (stale);
\* the value a login() call returned in it (result); the toast it showed.
Event(op) ==
    [op |-> op, resp |-> Null, store |-> Null, overlap |-> FALSE, stale |-> FALSE,
     result |-> Null, toast |-> "none"]

\* the events that are response tasks
ResponseOps == {"login", "verify", "dashboard", "update", "changePassword", "setup2FA", "enable2FA", "enable2FA refresh"}

\* the session: both local-storage keys and the AuthProvider's state
Session(token, userData, auth, usr) ==
    [token |-> token, userData |-> userData, isAuthenticated |-> auth, user |-> usr]

Cur == Session(lsToken, lsUser, isAuthenticated, user)

Commit(s) ==
    /\ lsToken' = s.token
    /\ lsUser' = s.userData
    /\ isAuthenticated' = s.isAuthenticated
    /\ user' = s.user

\* api.interceptors.request: the Authorization header it sets for a stored
\* token, none (Null) without one
Authorization(token) == IF token # Null THEN Some(<<"Bearer", token[1]>>) ELSE Null

\* mutant: the request interceptor attaches nothing
RequestUnauthorized(caller, ep, username) ==
    [caller |-> caller, ep |-> ep, username |-> username, auth |-> Null,
     live |-> TRUE, done |-> FALSE, overlap |-> FALSE, round |-> 0]

\* a request as dispatched by the function caller: the request interceptor
\* attaches the stored token; overlap turns true once the 401 branch of the
\* response interceptor has run while the request is in flight, done once the
\* Promise.all awaiting it has rejected
Request(caller, ep, username) ==
    [caller |-> caller, ep |-> ep, username |-> username, auth |-> Authorization(lsToken),
     live |-> TRUE, done |-> FALSE, overlap |-> FALSE, round |-> 0]

\* an answer: status, whether the x-require-totp header is set, whether the
\* body has a detail message, and the body's access_token and user
Response(status, totp, detail, token, usr) ==
    [status |-> status, totp |-> totp, detail |-> detail, token |-> token, user |-> usr]

\* no response at all: error.response is undefined
NetworkError == Response(0, FALSE, FALSE, Null, Null)

\* the answers the backend may give, per endpoint (only the login code tells
\* a 400 from the other failures)
Responses(r) ==
    IF r.ep = "/auth/login"
    THEN {Response(200, FALSE, FALSE, Some(t), u) :
             t \in Tokens,
             u \in {Null} \cup {Some(b) : b \in {b \in BackendUsers : b.username = r.username}}}
         \cup {Response(st, h, d, Null, Null) : st \in Statuses \ {0, 200}, h \in BOOLEAN, d \in BOOLEAN}
         \cup {NetworkError}
    ELSE IF r.ep = "/auth/me"
    THEN {Response(200, FALSE, FALSE, Null, Some(b)) : b \in BackendUsers}
         \cup {Response(st, FALSE, FALSE, Null, Null) : st \in {401, 500}}
         \cup {NetworkError}
    ELSE IF r.ep \in DashboardEndpoints
    THEN {Response(st, FALSE, FALSE, Null, Null) : st \in {200, 401, 500}} \cup {NetworkError}
    ELSE {Response(200, FALSE, FALSE, Null, Null), NetworkError}
         \cup {Response(st, FALSE, d, Null, Null) : st \in Statuses \ {0, 200}, d \in BOOLEAN}

\* the requests in flight to one of the endpoints eps
InflightTo(eps) == {r \in inflight : r.ep \in eps}

\* the requests in flight that the function caller dispatched
InflightBy(caller) == {r \in inflight : r.caller = caller}

\* the AuthProvider functions a settings view calls, with their endpoints
AccountCalls == {"changePassword", "setup2FA", "enable2FA"}
Endpoint(call) ==
    CASE call = "changePassword" -> "/auth/change-password"
      [] call = "setup2FA" -> "/auth/setup-2fa"
      [] call = "enable2FA" -> "/auth/enable-2fa"

\* the requests in flight on behalf of updateUser() and the account calls
InflightCalls == {r \in inflight : r.caller \in AccountCalls \cup {"updateUser"}}

\* the requests in flight after the login form unmounts: the continuation of
\* its request still runs, its update of the unmounted form's state is dropped
Unmounted(reqs) ==
    {IF r.ep = "/auth/login" THEN [r EXCEPT !.live = FALSE] ELSE r : r \in reqs}

\* mutant: the guard lets everyone through
ProtectedRouteOpen(p, auth) == p

\* ProtectedRoute: a protected location renders <Navigate to="/login"/> unless authenticated
ProtectedRoute(p, auth) == IF p # "/login" /\ ~auth THEN "/login" ELSE p

\* ------------------------------------------------------------- the views
\* the routes of the protected shell
Routes == {"/", "/rdp", "/files", "/sessions", "/logs", "/settings"}

\* the component App renders at location p
Rendered(p, auth) ==
    IF p = "/login" \/ ~auth THEN "LoginPage"
    ELSE CASE p = "/" -> "Dashboard"
           [] p = "/rdp" -> "RDPClient"
           [] p = "/files" -> "FileManager"
           [] p = "/sessions" -> "SessionMonitor"
           [] p = "/logs" -> "LogsViewer"
           [] p = "/settings" -> "Settings"

\* the views whose mount effect starts an interval timer (LogsViewer mounts
\* with isAutoRefresh = true)
PollingViews == {"Dashboard", "SessionMonitor", "LogsViewer"}

\* mount effects of view c on the running effect intervals ts
MountEffects(c, ts) == IF c \in PollingViews THEN ts \cup {c} ELSE ts

\* mutant: the effects return no cleanup
CleanupEffectsNone(c, ts) == ts

\* the cleanup the effects of view c returned: clearInterval(interval)
CleanupEffects(c, ts) == ts \ {c}

\* Dashboard's useState initial values; polls counts the calls of
\* loadDashboardData since the page was loaded
NewDashboard ==
    [stats |-> Null, metrics |-> Null, sessions |-> [poll |-> Null, list |-> "[]"],
     loading |-> TRUE, polls |-> 0]

\* setLogs(prev => [newLog, ...prev.slice(0, 99)])
LogsKept == 99

\* the fixture with k entries (ids below every Date.now())
MockLogs(k) == [i \in 1..k |-> 0 - i]

\* the fixture is not part of the sources: a list that fits the window the
\* interval keeps, empty, one short of full, or full
Fixtures == {MockLogs(k) : k \in {0, LogsKept, LogsKept + 1}}

\* mockFileSystem.files of utils/mockData, which is not part of the sources:
\* two files
MockFiles == <<"a", "b">>

\* the keys of Settings' state followed here: one number field (set through
\* parseInt), one switch, two selections
SettingKeys == {"autoLockTimeout", "requireTwoFactor", "rdpQuality", "encryptionLevel"}

\* useState({...}) of Settings
DefaultSettings ==
    [k \in SettingKeys |->
        CASE k = "autoLockTimeout" -> "30"
          [] k = "requireTwoFactor" -> "true"
          [] k = "rdpQuality" -> "high"
          [] k = "encryptionLevel" -> "AES-256"]

\* every view holds its useState initial values
NewComponents(fixture) ==
    /\ dashboard = NewDashboard
    /\ mockLogs = fixture
    /\ logs = mockLogs
    /\ clock = 0
    /\ files = MockFiles
    /\ selectedFiles = <<>>
    /\ uploads = <<>>
    /\ isConnected = FALSE
    /\ isConnecting = FALSE
    /\ connects = <<>>
    /\ settings = DefaultSettings
    /\ hasChanges = FALSE

\* the views mount afresh
MountComponents ==
    /\ dashboard' = NewDashboard
    /\ logs' = mockLogs
    /\ UNCHANGED <<mockLogs, clock>>
    /\ files' = MockFiles
    /\ selectedFiles' = <<>>
    /\ uploads' = <<>>
    /\ isConnected' = FALSE
    /\ isConnecting' = FALSE
    /\ settings' = DefaultSettings
    /\ hasChanges' = FALSE

\* the calls of handleConnect of a view that unmounts go on: their timeouts
\* are not cancelled
Abandoned(calls) == [i \in DOMAIN calls |-> [calls[i] EXCEPT !.live = FALSE]]

\* the rendered view changes from old to new: old unmounts (its effects'
\* cleanups run, its state is dropped; an interval without a cleanup keeps
\* running), new mounts with its initial state
ShowView(old, new) ==
    IF old = new
    THEN UNCHANGED viewVars
    ELSE /\ intervals' = MountEffects(new, CleanupEffects(old, intervals))
         /\ isAutoRefresh' = TRUE
         /\ uploadProgress' = 0
         /\ isUploading' = FALSE
         /\ uploadTimers' = 0
         /\ orphanTimers' = orphanTimers + uploadTimers
         /\ connects' = Abandoned(connects)
         /\ MountComponents

\* a timer event: the interval of view owner fires; mounted tells whether
\* the instance that started it is still on screen
TimerEvent(owner, mounted) == [op |-> "tick", owner |-> owner, mounted |-> mounted]

\* ------------------------------------------------------------- page load
\* mutant: the mount effect does not call verifyToken
StartAppNoVerify ==
    /\ isAuthenticated' = FALSE
    /\ user' = Null
    /\ requiresTOTP' = FALSE
    /\ navPending' = FALSE
    /\ redirects' = 0
    /\ path' = "/login"
    /\ inflight' = {}
    /\ loading' = (lsToken # Null)
    /\ UNCHANGED <<lsToken, lsUser>>
    /\ intervals' = {}
    /\ isAutoRefresh' = TRUE
    /\ uploadProgress' = 0
    /\ isUploading' = FALSE
    /\ uploadTimers' = 0
    /\ orphanTimers' = 0
    /\ connects' = <<>>
    /\ MountComponents

\* AuthProvider's useState initial values and its mount effect
StartApp ==
    /\ isAuthenticated' = FALSE
    /\ user' = Null
    /\ requiresTOTP' = FALSE
    /\ navPending' = FALSE
    /\ redirects' = 0
    /\ path' = "/login"
    /\ IF lsToken # Null
       THEN /\ inflight' = {Request("verifyToken", "/auth/me", "")}
            /\ loading' = TRUE
       ELSE /\ inflight' = {}
            /\ loading' = FALSE
    /\ UNCHANGED <<lsToken, lsUser>>
    /\ intervals' = {}
    /\ isAutoRefresh' = TRUE
    /\ uploadProgress' = 0
    /\ isUploading' = FALSE
    /\ uploadTimers' = 0
    /\ orphanTimers' = 0
    /\ connects' = <<>>
    /\ MountComponents

Init ==
    /\ lsToken = Null
    /\ lsUser = Null
    /\ isAuthenticated = FALSE
    /\ user = Null
    /\ loading = FALSE
    /\ path = "/login"
    /\ requiresTOTP = FALSE
    /\ inflight = {}
    /\ navPending = FALSE
    /\ redirects = 0
    /\ ev = Event("load")
    /\ intervals = {}
    /\ isAutoRefresh = TRUE
    /\ uploadProgress = 0
    /\ isUploading = FALSE
    /\ uploadTimers = 0
    /\ orphanTimers = 0
    /\ NewComponents(MockLogs(0))

\* the user reloads the tab (or opens the application again)
UserReload ==
    /\ StartApp
    /\ ev' = Event("load")

\* the navigation requested by the interceptor takes place
NavLoad ==
    /\ navPending
    /\ StartApp
    /\ ev' = Event("redirected")

\* ------------------------------------------------------------ login form
\* LoginPage.handleSubmit up to its await: login() sets loading and posts the
\* credentials.  The form is mounted at /login and its button is disabled
\* while loading.
SubmitLogin(username) ==
    /\ path = "/login"
    /\ ~loading
    /\ loading' = TRUE
    /\ inflight' = inflight \cup {Request("login", "/auth/login", username)}
    /\ ev' = Event("submit")
    /\ UNCHANGED <<lsToken, lsUser, isAuthenticated, user, path, requiresTOTP,
                   navPending, redirects>>
    /\ UNCHANGED viewVars

\* ------------------------------------------------------------ api client
\* mutant: the interceptor forgets the second key
ResponseInterceptorTokenOnly(status, s) ==
    IF status = 401
    THEN [s EXCEPT !.token = Null]
    ELSE s

\* api.interceptors.response on session s: the error branch for a failed
\* request (2xx answers take the success branch, which changes nothing)
ResponseInterceptor(status, s) ==
    IF status = 401
    THEN [s EXCEPT !.token = Null, !.userData = Null]
    ELSE s

\* mutant: the interceptor never navigates
InterceptorRedirectsNever(status) == FALSE

\* whether the interceptor assigns window.location.href = '/login'
InterceptorRedirects(status) == status = 401

\* the requests in flight once r is answered by resp: when r is awaited by a
\* Promise.all that this answer rejects, the other requests of that Promise.all
\* stay in flight, their answers no longer awaited; a 401 marks every request
\* still in flight as overlapped
Awaited(r, resp) ==
    LET rejects == r.caller = "loadDashboardData" /\ ~r.done /\ resp.status # 200 IN
    {[q EXCEPT !.done = (q.done \/ (rejects /\ q.caller = r.caller /\ q.round = r.round)),
               !.overlap = (q.overlap \/ resp.status = 401)] : q \in inflight \ {r}}

\* the part of a response task every endpoint shares: the request leaves the
\* set of requests in flight, the interceptor's navigation is recorded
Settle(r, resp) ==
    /\ r \in inflight
    /\ InterceptorRedirects(resp.status) => redirects < MaxRedirects
    /\ inflight' = Awaited(r, resp)
    /\ navPending' = (navPending \/ InterceptorRedirects(resp.status))
    /\ redirects' = IF InterceptorRedirects(resp.status) THEN redirects + 1 ELSE redirects

\* the event of a response task
ResponseEvent(op, r, resp, s) ==
    [Event(op) EXCEPT !.resp = Some(resp), !.store = <<s.token, s.userData>>,
                      !.overlap = r.overlap,
                      !.stale = (r.auth # Null /\ lsToken # Null /\ r.auth # Authorization(lsToken))]

\* -------------------------------------------------------------- login()
LoginResult(success, totp, error) == [success |-> success, requiresTOTP |-> totp, error |-> error]

\* mutant: the profile is not persisted
LoginResolvedNoUserData(req, resp, s) ==
    LET u == IF resp.user # Null THEN resp.user[1] ELSE FallbackUser(req.username) IN
    Session(resp.token, s.userData, TRUE, Some(u))

\* the try block of login() after the await, on session s
LoginResolved(req, resp, s) ==
    LET u == IF resp.user # Null THEN resp.user[1] ELSE FallbackUser(req.username) IN
    Session(resp.token, Some(JSONstringify(u)), TRUE, Some(u))

\* mutant: the catch block resets the in-memory session
LoginRejectedResets(req, resp, s) == [s EXCEPT !.isAuthenticated = FALSE, !.user = Null]

\* the catch block of login() changes no state
LoginRejected(req, resp, s) == s

\* mutant: the backend's detail message is not passed on
LoginCatchResultNoDetail(resp) ==
    IF resp.status = 400 /\ resp.totp
    THEN LoginResult(FALSE, "true", "Please enter your 2FA code")
    ELSE LoginResult(FALSE, "false", "Authentication failed")

\* mutant: the x-require-totp header is not looked at
LoginCatchResultIgnoresHeader(resp) ==
    IF resp.status # 0 /\ resp.detail
    THEN LoginResult(FALSE, "false", "detail")
    ELSE LoginResult(FALSE, "false", "Authentication failed")

\* the value the catch block of login() returns
LoginCatchResult(resp) ==
    IF resp.status = 400 /\ resp.totp
    THEN LoginResult(FALSE, "true", "Please enter your 2FA code")
    ELSE IF resp.status # 0 /\ resp.detail
    THEN LoginResult(FALSE, "false", "detail")
    ELSE LoginResult(FALSE, "false", "Authentication failed")

\* the value login() returns
LoginReturn(resp) ==
    IF resp.status = 200
    THEN LoginResult(TRUE, "undefined", "undefined")
    ELSE LoginCatchResult(resp)

\* LoginPage.handleSubmit after its await: the toast it shows
HandleSubmitToast(result) ==
    IF result.success THEN "login ok"
    ELSE IF result.requiresTOTP = "true" THEN "enter 2FA code"
    ELSE "login error"

\* LoginPage.handleSubmit after its await: the form's requiresTOTP (a form
\* that was unmounted meanwhile ignores the update)
HandleSubmitState(req, result, old) ==
    IF ~result.success /\ result.requiresTOTP = "true" /\ req.live
    THEN TRUE
    ELSE old

\* the answer to POST /auth/login arrives: interceptor, login(), handleSubmit
LoginResponse(r, resp) ==
    /\ r.ep = "/auth/login"
    /\ Settle(r, resp)
    /\ LET s1 == ResponseInterceptor(resp.status, Cur)
           s2 == IF resp.status = 200 THEN LoginResolved(r, resp, s1) ELSE LoginRejected(r, resp, s1)
           result == LoginReturn(resp) IN
       /\ Commit(s2)
       /\ loading' = FALSE
       /\ requiresTOTP' = HandleSubmitState(r, result, requiresTOTP)
       /\ path' = ProtectedRoute(path, s2.isAuthenticated)
       /\ ev' = [ResponseEvent("login", r, resp, s1) EXCEPT
                    !.result = Some(result), !.toast = HandleSubmitToast(result)]
    /\ UNCHANGED viewVars

\* --------------------------------------------------------- verifyToken()
\* the try block of verifyToken() after the await
VerifyResolved(resp, s) == [s EXCEPT !.user = resp.user, !.isAuthenticated = TRUE]

\* mutant: the catch block forgets the second key
VerifyRejectedTokenOnly(resp, s) == Session(Null, s.userData, FALSE, Null)

\* the catch block of verifyToken()
VerifyRejected(resp, s) == Session(Null, Null, FALSE, Null)

\* the answer to the startup GET /auth/me arrives: interceptor, verifyToken()
VerifyResponse(r, resp) ==
    /\ r.caller = "verifyToken"
    /\ Settle(r, resp)
    /\ LET s1 == ResponseInterceptor(resp.status, Cur)
           s2 == IF resp.status = 200 THEN VerifyResolved(resp, s1) ELSE VerifyRejected(resp, s1) IN
       /\ Commit(s2)
       /\ path' = ProtectedRoute(path, s2.isAuthenticated)
       /\ ev' = ResponseEvent("verify", r, resp, s1)
    /\ loading' = FALSE
    /\ UNCHANGED requiresTOTP
    /\ UNCHANGED viewVars

\* ---------------------------------------------------------- updateUser()
\* updateUser() up to its await.  The AuthProvider hands the function to the
\* views of the protected shell; the view awaits one account request at a
\* time (updateUser, changePassword, setup2FA or enable2FA).
UpdateUser ==
    /\ path # "/login"
    /\ isAuthenticated
    /\ InflightCalls = {}
    /\ inflight' = inflight \cup {Request("updateUser", "/auth/me", "")}
    /\ ev' = Event("refresh")
    /\ UNCHANGED <<lsToken, lsUser, isAuthenticated, user, loading, path, requiresTOTP,
                   navPending, redirects>>
    /\ UNCHANGED viewVars

\* mutant: the refreshed profile is not persisted
UpdateUserResolvedMemoryOnly(resp, s) == [s EXCEPT !.user = resp.user]

\* the try block of updateUser() after the await
UpdateUserResolved(resp, s) ==
    [s EXCEPT !.user = resp.user, !.userData = Some(JSONstringify(resp.user[1]))]

\* mutant: the catch block ends the session
UpdateUserRejectedLogsOut(resp, s) == Session(Null, Null, FALSE, Null)

\* the catch block of updateUser(): console.error only
UpdateUserRejected(resp, s) == s

\* the answer to updateUser's GET /auth/me arrives: interceptor, updateUser()
UpdateUserResponse(r, resp) ==
    /\ r.caller = "updateUser"
    /\ Settle(r, resp)
    /\ LET s1 == ResponseInterceptor(resp.status, Cur)
           s2 == IF resp.status = 200 THEN UpdateUserResolved(resp, s1) ELSE UpdateUserRejected(resp, s1) IN
       /\ Commit(s2)
       /\ ev' = ResponseEvent("update", r, resp, s1)
    /\ UNCHANGED <<loading, path, requiresTOTP>>
    /\ UNCHANGED viewVars

\* ------------------------------- changePassword(), setup2FA(), enable2FA()
CallResult(success, error) == [success |-> success, error |-> error]

\* the message of the catch blocks: the backend's detail or the default
DefaultError(call) ==
    CASE call = "changePassword" -> "Failed to change password"
      [] call = "setup2FA" -> "Failed to setup 2FA"
      [] call = "enable2FA" -> "Failed to enable 2FA"

ErrorMessage(call, resp) == IF resp.status # 0 /\ resp.detail THEN "detail" ELSE DefaultError(call)

\* the toast.success of the try blocks (setup2FA shows none)
SuccessToast(call) ==
    CASE call = "changePassword" -> "Password changed successfully"
      [] call = "setup2FA" -> "none"
      [] call = "enable2FA" -> "Two-factor authentication enabled"

\* one of the three functions up to its first await
AccountCall(call) ==
    /\ path # "/login"
    /\ isAuthenticated
    /\ InflightCalls = {}
    /\ inflight' = inflight \cup {Request(call, Endpoint(call), "")}
    /\ ev' = Event("call")
    /\ UNCHANGED <<lsToken, lsUser, isAuthenticated, user, loading, path, requiresTOTP,
                   navPending, redirects>>
    /\ UNCHANGED viewVars

\* mutant: a failure is reported as a success
CallReturnAlwaysSuccess(call, resp) == CallResult(TRUE, "undefined")

\* the value the function returns when resp answers its own request
CallReturn(call, resp) ==
    IF resp.status = 200
    THEN CallResult(TRUE, "undefined")
    ELSE CallResult(FALSE, ErrorMessage(call, resp))

\* the toast the function shows when resp answers its own request
CallToast(call, resp) == IF resp.status = 200 THEN SuccessToast(call) ELSE ErrorMessage(call, resp)

\* the answer to changePassword's or setup2FA's request, or a failure of
\* enable2FA's, arrives: interceptor, then the function returns
AccountCallResponse(r, resp) ==
    /\ r.caller \in AccountCalls
    /\ r.ep = Endpoint(r.caller)
    /\ r.caller = "enable2FA" => resp.status # 200
    /\ Settle(r, resp)
    /\ LET s1 == ResponseInterceptor(resp.status, Cur) IN
       /\ Commit(s1)
       /\ ev' = [ResponseEvent(r.caller, r, resp, s1) EXCEPT
                    !.result = Some(CallReturn(r.caller, resp)),
                    !.toast = CallToast(r.caller, resp)]
    /\ UNCHANGED <<loading, path, requiresTOTP>>
    /\ UNCHANGED viewVars

\* enable2FA's request succeeds: interceptor, then enable2FA() calls
\* updateUser(), which dispatches GET /auth/me
Enable2FAResponse(r, resp) ==
    /\ r.caller = "enable2FA"
    /\ r.ep = Endpoint("enable2FA")
    /\ resp.status = 200
    /\ r \in inflight
    /\ inflight' = (inflight \ {r}) \cup {Request("enable2FA", "/auth/me", "")}
    /\ ev' = ResponseEvent("enable2FA", r, resp, Cur)
    /\ UNCHANGED <<lsToken, lsUser, isAuthenticated, user, loading, path, requiresTOTP,
                   navPending, redirects>>
    /\ UNCHANGED viewVars

\* the answer to that GET /auth/me arrives: interceptor, updateUser(), then
\* enable2FA() shows its toast and returns
Enable2FARefreshResponse(r, resp) ==
    /\ r.caller = "enable2FA"
    /\ r.ep = "/auth/me"
    /\ Settle(r, resp)
    /\ LET s1 == ResponseInterceptor(resp.status, Cur)
           s2 == IF resp.status = 200 THEN UpdateUserResolved(resp, s1) ELSE UpdateUserRejected(resp, s1) IN
       /\ Commit(s2)
       /\ ev' = [ResponseEvent("enable2FA refresh", r, resp, s1) EXCEPT
                    !.result = Some(CallResult(TRUE, "undefined")),
                    !.toast = SuccessToast("enable2FA")]
    /\ UNCHANGED <<loading, path, requiresTOTP>>
    /\ UNCHANGED viewVars

\* ----------------------------------------------------------------- logout
\* mutant: logout forgets the second key
LogoutEffectKeepsUserData(s) == Session(Null, s.userData, FALSE, Null)

\* logout() on session s
LogoutEffect(s) == Session(Null, Null, FALSE, Null)

\* Sidebar.handleLogout; the sidebar is rendered inside the protected shell
Logout ==
    /\ path # "/login"
    /\ isAuthenticated
    /\ Commit(LogoutEffect(Cur))
    /\ path' = ProtectedRoute(path, LogoutEffect(Cur).isAuthenticated)
    /\ ev' = [Event("logout") EXCEPT !.toast = "logged out"]
    /\ ShowView(Rendered(path, isAuthenticated), Rendered(path', isAuthenticated'))
    /\ UNCHANGED <<loading, requiresTOTP, inflight, navPending, redirects>>

\* -------------------------------------------------------------- dashboard
\* loadDashboardData up to its await: three requests at once (mount effect,
\* 30 s interval or the refresh button of the mounted Dashboard).  A round
\* starts here once the requests of the round before it have settled (the
\* interval equals the client's request timeout).
LoadDashboardData ==
    /\ path = "/"
    /\ isAuthenticated
    /\ InflightTo(DashboardEndpoints) = {}
    /\ inflight' = inflight \cup {Request("loadDashboardData", e, "") : e \in DashboardEndpoints}
    /\ ev' = Event("poll")
    /\ UNCHANGED <<lsToken, lsUser, isAuthenticated, user, loading, path, requiresTOTP,
                   navPending, redirects>>
    /\ UNCHANGED viewVars

\* the toast of loadDashboardData when resp answers r: its catch block runs
\* for the first answer that rejects the Promise.all
LoadDashboardToast(r, resp) ==
    IF ~r.done /\ resp.status # 200 THEN "Failed to load dashboard data" ELSE "none"

\* the answer to a dashboard request arrives: interceptor, loadDashboardData
DashboardResponse(r, resp) ==
    /\ r.ep \in DashboardEndpoints
    /\ Settle(r, resp)
    /\ LET s1 == ResponseInterceptor(resp.status, Cur) IN
       /\ Commit(s1)
       /\ ev' = [ResponseEvent("dashboard", r, resp, s1) EXCEPT !.toast = LoadDashboardToast(r, resp)]
    /\ UNCHANGED <<loading, path, requiresTOTP>>
    /\ UNCHANGED viewVars

\* ------------------------------------------------------------- the router
\* client-side location change (history back/forward): the views of the old
\* location unmount, ProtectedRoute guards the new one
GoTo(p) ==
    /\ p # path
    /\ path' = ProtectedRoute(p, isAuthenticated)
    /\ requiresTOTP' = FALSE
    /\ inflight' = Unmounted(inflight)
    /\ ev' = Event("goto")
    /\ ShowView(Rendered(path, isAuthenticated), Rendered(path', isAuthenticated))
    /\ UNCHANGED <<lsToken, lsUser, isAuthenticated, user, loading, navPending, redirects>>

Next ==
    \/ UserReload
    \/ NavLoad
    \/ \E username \in Usernames : SubmitLogin(username)
    \/ \E r \in InflightTo({"/auth/login"}) : \E resp \in Responses(r) : LoginResponse(r, resp)
    \/ \E r \in InflightBy("verifyToken") : \E resp \in Responses(r) : VerifyResponse(r, resp)
    \/ \E r \in InflightTo(DashboardEndpoints) : \E resp \in Responses(r) : DashboardResponse(r, resp)
    \/ Logout
    \/ LoadDashboardData
    \/ \E p \in Paths : GoTo(p)

Spec == Init /\ [][Next]_vars

\* the application without the Dashboard's polling; every request is
\* answered or times out (the client's timeout is 30 s) and a navigation the
\* interceptor requested takes place
NextLogin ==
    \/ UserReload
    \/ NavLoad
    \/ \E username \in Usernames : SubmitLogin(username)
    \/ \E r \in InflightTo({"/auth/login"}) : \E resp \in Responses(r) : LoginResponse(r, resp)
    \/ \E r \in InflightBy("verifyToken") : \E resp \in Responses(r) : VerifyResponse(r, resp)
    \/ Logout
    \/ \E p \in Paths : GoTo(p)

LoginAnswered == \E r \in InflightTo({"/auth/login"}) : \E resp \in Responses(r) : LoginResponse(r, resp)
VerifyAnswered == \E r \in InflightBy("verifyToken") : \E resp \in Responses(r) : VerifyResponse(r, resp)

SpecLogin ==
    /\ Init
    /\ [][NextLogin]_vars
    /\ WF_vars(LoginAnswered)
    /\ WF_vars(VerifyAnswered)
    /\ WF_vars(NavLoad)

\* the application with a settings view that calls the AuthProvider's
\* account functions (and no dashboard polling)
NextAccount ==
    \/ UserReload
    \/ NavLoad
    \/ \E username \in Usernames : SubmitLogin(username)
    \/ \E r \in InflightTo({"/auth/login"}) : \E resp \in Responses(r) : LoginResponse(r, resp)
    \/ \E r \in InflightBy("verifyToken") : \E resp \in Responses(r) : VerifyResponse(r, resp)
    \/ UpdateUser
    \/ \E r \in InflightBy("updateUser") : \E resp \in Responses(r) : UpdateUserResponse(r, resp)
    \/ \E call \in AccountCalls : AccountCall(call)
    \/ \E r \in InflightTo({Endpoint(c) : c \in AccountCalls}) : \E resp \in Responses(r) : AccountCallResponse(r, resp)
    \/ \E r \in InflightTo({Endpoint("enable2FA")}) : \E resp \in Responses(r) : Enable2FAResponse(r, resp)
    \/ \E r \in InflightBy("enable2FA") : \E resp \in Responses(r) : Enable2FARefreshResponse(r, resp)
    \/ Logout
    \/ \E p \in Paths : GoTo(p)

SpecAccount == Init /\ [][NextAccount]_vars

\* ------------------------------------------------------ views and timers
\* setUploadProgress(prev => prev + 10) until prev >= 100
ProgressStep == 10
ProgressDone == 100

sessionVars == <<lsToken, lsUser, isAuthenticated, user, loading, requiresTOTP,
                 inflight, navPending, redirects>>

\* slice(0, n) of a list
Slice(list, n) == SubSeq(list, 1, IF Len(list) < n THEN Len(list) ELSE n)

\* mutant: the list is not cut
PrependAll(newLog, prev) == <<newLog>> \o prev

\* the updater of the LogsViewer interval
Prepend(newLog, prev) == <<newLog>> \o Slice(prev, LogsKept)

\* the interval of a mounted polling view fires; the callback of LogsViewer
\* prepends a log whose id is Date.now() (what the callbacks of Dashboard
\* and SessionMonitor do to their data is not followed here)
Tick(c) ==
    /\ c \in intervals
    /\ ev' = TimerEvent(c, Rendered(path, isAuthenticated) = c)
    /\ IF c = "LogsViewer"
       THEN /\ clock < MaxTicks
            /\ clock' = clock + 1
            /\ logs' = Prepend(clock', logs)
       ELSE UNCHANGED <<logs, clock>>
    /\ UNCHANGED <<sessionVars, path, intervals, isAutoRefresh, uploadProgress, isUploading,
                   uploadTimers, orphanTimers, dashVars, mockLogs, fileVars, rdpVars, settingsVars>>

\* LogsViewer.clearLogs
ClearLogs ==
    /\ Rendered(path, isAuthenticated) = "LogsViewer"
    /\ logs' = <<>>
    /\ ev' = Event("clearLogs")
    /\ UNCHANGED <<sessionVars, path, intervals, isAutoRefresh, uploadProgress, isUploading,
                   uploadTimers, orphanTimers, dashVars, mockLogs, clock, fileVars, rdpVars, settingsVars>>

\* LogsViewer: the auto-refresh button; the effect depends on isAutoRefresh,
\* so its cleanup runs and the effect runs again
ToggleAutoRefresh ==
    /\ Rendered(path, isAuthenticated) = "LogsViewer"
    /\ isAutoRefresh' = ~isAutoRefresh
    /\ intervals' = IF isAutoRefresh'
                    THEN MountEffects("LogsViewer", CleanupEffects("LogsViewer", intervals))
                    ELSE CleanupEffects("LogsViewer", intervals)
    /\ ev' = Event("toggle")
    /\ UNCHANGED <<sessionVars, path, uploadProgress, isUploading, uploadTimers, orphanTimers, compVars>>

\* the names of the files the user picks or drops at once
Batches == {<<"a">>, <<"b", "c">>}

\* array.includes(x)
Includes(array, x) == \E i \in DOMAIN array : array[i] = x

\* the list without its i-th entry
Without(list, i) == SubSeq(list, 1, i - 1) \o SubSeq(list, i + 1, Len(list))

\* the files the running intervals of the mounted FileManager will add
RECURSIVE Pending(_)
Pending(us) == IF us = <<>> THEN 0 ELSE Len(Head(us)) + Pending(Tail(us))

\* FileManager.handleFileUpload (file input or drop): starts an interval
\* whose callback holds uploadedFiles
HandleFileUpload(uploadedFiles) ==
    /\ Rendered(path, isAuthenticated) = "FileManager"
    /\ uploadTimers + orphanTimers < MaxUploads
    /\ Len(files) + Pending(uploads) + Len(uploadedFiles) <= MaxFiles
    /\ isUploading' = TRUE
    /\ uploadProgress' = 0
    /\ uploadTimers' = uploadTimers + 1
    /\ uploads' = Append(uploads, uploadedFiles)
    /\ ev' = Event("upload")
    /\ UNCHANGED <<sessionVars, path, intervals, isAutoRefresh, orphanTimers,
                   dashVars, logVars, files, selectedFiles, rdpVars, settingsVars>>

\* mutant: a click always adds the name
ToggleSelectedAdds(prev, fileName) == Append(prev, fileName)

\* the updater of handleFileSelect
ToggleSelected(prev, fileName) ==
    IF Includes(prev, fileName)
    THEN SelectSeq(prev, LAMBDA name : name # fileName)
    ELSE Append(prev, fileName)

\* the updater of handleDelete: prev.filter(file => !selectedFiles.includes(file.name))
Remaining(prev, selected) == SelectSeq(prev, LAMBDA file : ~Includes(selected, file))

\* the events of the FileManager's buttons: the name clicked, the toast
FileEvent(op, fileName, toast) == [op |-> op, fileName |-> fileName, toast |-> toast]

\* FileManager.handleFileSelect: a click on a listed file
HandleFileSelect(fileName) ==
    /\ Rendered(path, isAuthenticated) = "FileManager"
    /\ Includes(files, fileName)
    /\ selectedFiles' = ToggleSelected(selectedFiles, fileName)
    /\ ev' = FileEvent("select", fileName, "none")
    /\ UNCHANGED <<sessionVars, path, intervals, isAutoRefresh, uploadProgress, isUploading,
                   uploadTimers, orphanTimers, dashVars, logVars, files, uploads, rdpVars, settingsVars>>

\* FileManager.handleDownload (its button is disabled while nothing is
\* selected)
HandleDownload ==
    /\ Rendered(path, isAuthenticated) = "FileManager"
    /\ Len(selectedFiles) # 0
    /\ selectedFiles' = <<>>
    /\ ev' = FileEvent("download", "", "success")
    /\ UNCHANGED <<sessionVars, path, intervals, isAutoRefresh, uploadProgress, isUploading,
                   uploadTimers, orphanTimers, dashVars, logVars, files, uploads, rdpVars, settingsVars>>

\* FileManager.handleDelete (its button is disabled while nothing is
\* selected)
HandleDelete ==
    /\ Rendered(path, isAuthenticated) = "FileManager"
    /\ Len(selectedFiles) # 0
    /\ files' = Remaining(files, selectedFiles)
    /\ selectedFiles' = <<>>
    /\ ev' = FileEvent("delete", "", "success")
    /\ UNCHANGED <<sessionVars, path, intervals, isAutoRefresh, uploadProgress, isUploading,
                   uploadTimers, orphanTimers, dashVars, logVars, uploads, rdpVars, settingsVars>>

\* an upload interval of the mounted FileManager fires: the updater passed to
\* setUploadProgress
UploadTick ==
    /\ uploadTimers > 0
    /\ IF uploadProgress >= ProgressDone
       THEN \E i \in DOMAIN uploads :
               /\ uploadTimers' = uploadTimers - 1
               /\ isUploading' = FALSE
               /\ files' = files \o uploads[i]
               /\ uploads' = Without(uploads, i)
               /\ uploadProgress' = ProgressDone
       ELSE /\ uploadProgress' = uploadProgress + ProgressStep
            /\ UNCHANGED <<uploadTimers, isUploading, files, uploads>>
    /\ ev' = TimerEvent("FileManager", TRUE)
    /\ UNCHANGED <<sessionVars, path, intervals, isAutoRefresh, orphanTimers,
                   dashVars, logVars, selectedFiles, rdpVars, settingsVars>>

\* an upload interval fires after its FileManager unmounted: React may drop
\* the state update of the unmounted component (the interval keeps running)
\* or still call the updater, which clears the interval if the progress it
\* sees is complete
OrphanUploadTick ==
    /\ orphanTimers > 0
    /\ orphanTimers' \in {orphanTimers, orphanTimers - 1}
    /\ ev' = TimerEvent("FileManager", FALSE)
    /\ UNCHANGED <<sessionVars, path, intervals, isAutoRefresh, uploadProgress, isUploading, uploadTimers, compVars>>

\* a signed-in session with the Dashboard on screen: the state after a
\* successful login and the navigation to /
InitViews ==
    LET u == [username |-> "admin", totpEnabled |-> "true"] IN
    /\ lsToken = Some(1)
    /\ lsUser = Some(JSONstringify(u))
    /\ isAuthenticated = TRUE
    /\ user = Some(u)
    /\ loading = FALSE
    /\ path = "/"
    /\ requiresTOTP = FALSE
    /\ inflight = {}
    /\ navPending = FALSE
    /\ redirects = 0
    /\ ev = Event("goto")
    /\ intervals = {"Dashboard"}
    /\ isAutoRefresh = TRUE
    /\ uploadProgress = 0
    /\ isUploading = FALSE
    /\ uploadTimers = 0
    /\ orphanTimers = 0
    /\ (\E fixture \in Fixtures : NewComponents(fixture))

\* the signed-in user moves between the views and uses them
NextViews ==
    \/ \E p \in Routes \cup {"/login"} : GoTo(p)
    \/ \E c \in PollingViews : Tick(c)
    \/ ClearLogs
    \/ ToggleAutoRefresh
    \/ \E uploadedFiles \in Batches : HandleFileUpload(uploadedFiles)
    \/ UploadTick
    \/ OrphanUploadTick

SpecViews == InitViews /\ [][NextViews]_vars

\* --------------------------------------------------------- mockAuth.login
\* mockAuth.users as shipped (one administrator with the second factor on),
\* and the same table with the second factor off
MockUsers ==
    {<<[username |-> "admin", password |-> "admin123", totpEnabled |-> t]>> : t \in BOOLEAN}

MockUsernames == {"admin", "guest", ""}
MockPasswords == {"admin123", "wrongpass", ""}
\* totpCode: Null is the default null
MockCodes == {Null, Some(""), Some("123456"), Some("000000")}

MockResult(success, error, totp, usr, token) ==
    [success |-> success, error |-> error, requiresTOTP |-> totp, user |-> usr, token |-> token]

\* users.find(u => u.username === username): the first match, Null for undefined
Find(users, username) ==
    LET idx == {i \in 1..Len(users) : users[i].username = username} IN
    IF idx = {} THEN Null ELSE Some(users[CHOOSE i \in idx : \A j \in idx : i <= j])

\* !totpCode: null, undefined and the empty string are falsy
Falsy(code) == code = Null \/ code = Some("")

\* mutant: the second factor is asked for before the password is checked
MockLoginTotpFirst(users, username, password, totpCode, now) ==
    LET found == Find(users, username) IN
    IF found = Null
    THEN MockResult(FALSE, "Invalid credentials", "undefined", Null, Null)
    ELSE IF found[1].totpEnabled /\ Falsy(totpCode)
    THEN MockResult(FALSE, "undefined", "true", Null, Null)
    ELSE IF found[1].password # password
    THEN MockResult(FALSE, "Invalid credentials", "undefined", Null, Null)
    ELSE IF found[1].totpEnabled /\ totpCode # Some("123456")
    THEN MockResult(FALSE, "Invalid TOTP code", "undefined", Null, Null)
    ELSE MockResult(TRUE, "undefined", "undefined",
                    Some([found[1] EXCEPT !.password = "undefined"]),
                    Some(<<"mock_jwt_token_", now>>))

\* mockAuth.login after its delay; now is the reading of Date.now()
MockLogin(users, username, password, totpCode, now) ==
    LET found == Find(users, username) IN
    IF found = Null \/ found[1].password # password
    THEN MockResult(FALSE, "Invalid credentials", "undefined", Null, Null)
    ELSE IF found[1].totpEnabled /\ Falsy(totpCode)
    THEN MockResult(FALSE, "undefined", "true", Null, Null)
    ELSE IF found[1].totpEnabled /\ totpCode # Some("123456")
    THEN MockResult(FALSE, "Invalid TOTP code", "undefined", Null, Null)
    ELSE MockResult(TRUE, "undefined", "undefined",
                    Some([found[1] EXCEPT !.password = "undefined"]),
                    Some(<<"mock_jwt_token_", now>>))

\* a call of mockAuth.login: its arguments and, once it has returned, its result
MockCall(users, username, password, totpCode) ==
    [op |-> "mockAuth.login", users |-> users, username |-> username, password |-> password,
     totpCode |-> totpCode, result |-> Null]

\* the application as loaded, with one call of mockAuth.login pending
InitMock ==
    /\ lsToken = Null
    /\ lsUser = Null
    /\ isAuthenticated = FALSE
    /\ user = Null
    /\ loading = FALSE
    /\ path = "/login"
    /\ requiresTOTP = FALSE
    /\ inflight = {}
    /\ navPending = FALSE
    /\ redirects = 0
    /\ intervals = {}
    /\ isAutoRefresh = TRUE
    /\ uploadProgress = 0
    /\ isUploading = FALSE
    /\ uploadTimers = 0
    /\ orphanTimers = 0
    /\ NewComponents(MockLogs(0))
    /\ ev \in {MockCall(us, n, pw, c) :
                  us \in MockUsers, n \in MockUsernames, pw \in MockPasswords, c \in MockCodes}

\* the pending call returns
MockLoginReturns(now) ==
    /\ ev.op = "mockAuth.login"
    /\ ev.result = Null
    /\ ev' = [ev EXCEPT !.result = Some(MockLogin(ev.users, ev.username, ev.password, ev.totpCode, now))]
    /\ UNCHANGED <<sessionVars, path, viewVars>>

NextMock == \E now \in 1..MaxNow : MockLoginReturns(now)

SpecMock == InitMock /\ [][NextMock]_vars

\* ------------------------------------------------------ Dashboard's data
\* the three requests of call n of loadDashboardData
PollRequest(n, ep) == [Request("loadDashboardData", ep, "") EXCEPT !.round = n]

\* sessionsData.sessions || []: the list of the answer's body, the empty
\* list for a body without one; poll is the call the value came from
Sessions(n, body) == [poll |-> Some(n), list |-> IF body = "sessions" THEN "sessions" ELSE "[]"]

\* mutant: only the first setter runs
LoadResolvedStatsOnly(n, body, d) == [d EXCEPT !.stats = Some(n)]

\* the try block of loadDashboardData after the await, on Dashboard state d
LoadResolved(n, body, d) ==
    [d EXCEPT !.stats = Some(n), !.metrics = Some(n), !.sessions = Sessions(n, body)]

\* the finally block of loadDashboardData
LoadFinally(d) == [d EXCEPT !.loading = FALSE]

\* loadDashboardData up to its await: three requests go out at once
LoadStart(refresh) ==
    /\ path = "/"
    /\ isAuthenticated
    /\ dashboard.polls < MaxPolls
    /\ LET n == dashboard.polls + 1 IN
       /\ inflight' = inflight \cup {PollRequest(n, e) : e \in DashboardEndpoints}
       /\ dashboard' = [dashboard EXCEPT !.polls = n, !.loading = (refresh \/ @)]
    /\ UNCHANGED <<lsToken, lsUser, isAuthenticated, user, loading, path, requiresTOTP,
                   navPending, redirects>>
    /\ UNCHANGED <<intervals, isAutoRefresh, uploadProgress, isUploading, uploadTimers, orphanTimers>>
    /\ UNCHANGED <<logVars, fileVars, rdpVars, settingsVars>>

\* the 30 s interval of the mounted Dashboard fires
PollTick ==
    /\ "Dashboard" \in intervals
    /\ LoadStart(FALSE)
    /\ ev' = TimerEvent("Dashboard", TRUE)

\* the refresh button
RefreshData ==
    /\ LoadStart(TRUE)
    /\ ev' = Event("refresh")

\* the bodies the sessions answer of r's call may have had, read when answer
\* resp to r resolves the Promise.all of the call
Bodies(r, resp) ==
    IF resp.status = 200 /\ ~r.done /\ (\A q \in inflight \ {r} : q.round # r.round)
    THEN {"sessions", "none"}
    ELSE {"none"}

\* the answer to a request of loadDashboardData arrives: interceptor, then
\* the Promise.all of its call rejects (first failure), resolves (last of
\* three successes) or keeps waiting
PollResponse(r, resp, body) ==
    /\ r.caller = "loadDashboardData"
    /\ Settle(r, resp)
    /\ LET s1 == ResponseInterceptor(resp.status, Cur)
           settled == \A q \in inflight \ {r} : q.round # r.round IN
       /\ Commit(s1)
       /\ ev' = [ResponseEvent("dashboard", r, resp, s1) EXCEPT !.toast = LoadDashboardToast(r, resp)]
       /\ dashboard' =
             IF r.done \/ ~r.live THEN dashboard
             ELSE IF resp.status # 200 THEN LoadFinally(dashboard)
             ELSE IF settled THEN LoadFinally(LoadResolved(r.round, body, dashboard))
             ELSE dashboard
    /\ UNCHANGED <<loading, path, requiresTOTP>>
    /\ UNCHANGED <<intervals, isAutoRefresh, uploadProgress, isUploading, uploadTimers, orphanTimers>>
    /\ UNCHANGED <<logVars, fileVars, rdpVars, settingsVars>>

\* a signed-in session whose Dashboard has just mounted: its effect has made
\* the first call of loadDashboardData and started the interval
InitDashboard ==
    LET u == [username |-> "admin", totpEnabled |-> "true"] IN
    /\ lsToken = Some(1)
    /\ lsUser = Some(JSONstringify(u))
    /\ isAuthenticated = TRUE
    /\ user = Some(u)
    /\ loading = FALSE
    /\ path = "/"
    /\ requiresTOTP = FALSE
    /\ inflight = {PollRequest(1, e) : e \in DashboardEndpoints}
    /\ navPending = FALSE
    /\ redirects = 0
    /\ ev = Event("goto")
    /\ intervals = {"Dashboard"}
    /\ isAutoRefresh = TRUE
    /\ uploadProgress = 0
    /\ isUploading = FALSE
    /\ uploadTimers = 0
    /\ orphanTimers = 0
    /\ dashboard = [NewDashboard EXCEPT !.polls = 1]
    /\ mockLogs = MockLogs(0)
    /\ logs = mockLogs
    /\ clock = 0
    /\ files = MockFiles
    /\ selectedFiles = <<>>
    /\ uploads = <<>>
    /\ isConnected = FALSE
    /\ isConnecting = FALSE
    /\ connects = <<>>
    /\ settings = DefaultSettings
    /\ hasChanges = FALSE

NextDashboard ==
    \/ PollTick
    \/ RefreshData
    \/ \E r \in InflightTo(DashboardEndpoints) : \E resp \in Responses(r) :
          \E body \in Bodies(r, resp) : PollResponse(r, resp, body)
    \/ NavLoad

SpecDashboard == InitDashboard /\ [][NextDashboard]_vars

\* ------------------------------------------------------ FileManager's files
\* a signed-in session with the FileManager on screen
InitFiles ==
    LET u == [username |-> "admin", totpEnabled |-> "true"] IN
    /\ lsToken = Some(1)
    /\ lsUser = Some(JSONstringify(u))
    /\ isAuthenticated = TRUE
    /\ user = Some(u)
    /\ loading = FALSE
    /\ path = "/files"
    /\ requiresTOTP = FALSE
    /\ inflight = {}
    /\ navPending = FALSE
    /\ redirects = 0
    /\ ev = Event("goto")
    /\ intervals = {}
    /\ isAutoRefresh = TRUE
    /\ uploadProgress = 0
    /\ isUploading = FALSE
    /\ uploadTimers = 0
    /\ orphanTimers = 0
    /\ NewComponents(MockLogs(0))

\* the user works with the file list
NextFiles ==
    \/ \E fileName \in {files[i] : i \in DOMAIN files} : HandleFileSelect(fileName)
    \/ HandleDownload
    \/ HandleDelete
    \/ \E uploadedFiles \in Batches : HandleFileUpload(uploadedFiles)
    \/ UploadTick

SpecFiles == InitFiles /\ [][NextFiles]_vars

\* the user uploads files and may leave the FileManager and come back while
\* an upload runs; a running interval keeps firing
NextUploads ==
    \/ \E p \in {"/", "/files"} : GoTo(p)
    \/ \E uploadedFiles \in Batches : HandleFileUpload(uploadedFiles)
    \/ UploadTick
    \/ OrphanUploadTick

SpecUploads ==
    /\ InitFiles
    /\ [][NextUploads]_vars
    /\ WF_vars(UploadTick)
    /\ WF_vars(OrphanUploadTick)

\* ------------------------------------------------- RDPClient.handleConnect
\* steps.length: the notifications of the connection sequence
ConnectSteps == 6

\* the events of RDPClient: a click on the button (step 0) or the k-th
\* timeout of a call of handleConnect with its toast.info(steps[k - 1]);
\* live tells whether the RDPClient that made the call is still mounted
ConnectEvent(op, step, live) == [op |-> op, step |-> step, live |-> live]

\* RDPClient.handleConnect up to its first await: the connect button
\* (disabled while isConnecting) or, once connected, the disconnect button
HandleConnect ==
    /\ Rendered(path, isAuthenticated) = "RDPClient"
    /\ isConnected \/ ~isConnecting
    /\ IF isConnected
       THEN /\ isConnected' = FALSE
            /\ ev' = ConnectEvent("disconnect", 0, TRUE)
            /\ UNCHANGED <<isConnecting, connects>>
       ELSE /\ Len(connects) < MaxConnects
            /\ isConnecting' = TRUE
            /\ connects' = Append(connects, [step |-> 0, live |-> TRUE])
            /\ ev' = ConnectEvent("connect", 0, TRUE)
            /\ UNCHANGED isConnected
    /\ UNCHANGED <<sessionVars, path, intervals, isAutoRefresh, uploadProgress, isUploading,
                   uploadTimers, orphanTimers, dashVars, logVars, fileVars, settingsVars>>

\* a timeout of call i of handleConnect resolves: the next notification is
\* shown; after the last one the loop ends and the call sets isConnected and
\* clears isConnecting (state updates of an unmounted RDPClient are dropped)
ConnectStep(i) ==
    /\ i \in DOMAIN connects
    /\ LET call == connects[i]
           step == call.step + 1 IN
       /\ ev' = ConnectEvent("step", step, call.live)
       /\ IF step < ConnectSteps
          THEN /\ connects' = [connects EXCEPT ![i].step = step]
               /\ UNCHANGED <<isConnected, isConnecting>>
          ELSE /\ connects' = Without(connects, i)
               /\ IF call.live
                  THEN isConnected' = TRUE /\ isConnecting' = FALSE
                  ELSE UNCHANGED <<isConnected, isConnecting>>
    /\ UNCHANGED <<sessionVars, path, intervals, isAutoRefresh, uploadProgress, isUploading,
                   uploadTimers, orphanTimers, dashVars, logVars, fileVars, settingsVars>>

\* a signed-in session with the RDPClient on screen
InitRDP ==
    LET u == [username |-> "admin", totpEnabled |-> "true"] IN
    /\ lsToken = Some(1)
    /\ lsUser = Some(JSONstringify(u))
    /\ isAuthenticated = TRUE
    /\ user = Some(u)
    /\ loading = FALSE
    /\ path = "/rdp"
    /\ requiresTOTP = FALSE
    /\ inflight = {}
    /\ navPending = FALSE
    /\ redirects = 0
    /\ ev = Event("goto")
    /\ intervals = {}
    /\ isAutoRefresh = TRUE
    /\ uploadProgress = 0
    /\ isUploading = FALSE
    /\ uploadTimers = 0
    /\ orphanTimers = 0
    /\ NewComponents(MockLogs(0))

\* the user connects and disconnects and may leave the RDPClient and come
\* back
NextRDP ==
    \/ \E p \in {"/", "/rdp"} : GoTo(p)
    \/ HandleConnect
    \/ \E i \in DOMAIN connects : ConnectStep(i)

SpecRDP == InitRDP /\ [][NextRDP]_vars

\* ------------------------------------------------------------- Settings
\* parseInt(e.target.value) of a number field: NaN for a text that does not
\* start with digits
ParseInt(text) == IF text \in {"30", "60"} THEN text ELSE "NaN"

\* the values the user's input gives each field
Inputs(key) ==
    CASE key = "autoLockTimeout" -> {ParseInt(text) : text \in {"30", "60", ""}}
      [] key = "requireTwoFactor" -> {"true", "false"}
      [] key = "rdpQuality" -> {"high", "low"}
      [] key = "encryptionLevel" -> {"AES-128", "AES-256", "ChaCha20"}

\* the events of Settings
SettingsEvent(op, key, value) == [op |-> op, key |-> key, value |-> value]

\* Settings.handleSettingChange(key, value)
HandleSettingChange(key, value) ==
    /\ Rendered(path, isAuthenticated) = "Settings"
    /\ settings' = [settings EXCEPT ![key] = value]
    /\ hasChanges' = TRUE
    /\ ev' = SettingsEvent("handleSettingChange", key, value)
    /\ UNCHANGED <<sessionVars, path, intervals, isAutoRefresh, uploadProgress, isUploading,
                   uploadTimers, orphanTimers, dashVars, logVars, fileVars, rdpVars>>

\* Settings.saveSettings (its button is rendered while hasChanges)
SaveSettings ==
    /\ Rendered(path, isAuthenticated) = "Settings"
    /\ hasChanges
    /\ hasChanges' = FALSE
    /\ ev' = SettingsEvent("saveSettings", "", "")
    /\ UNCHANGED <<sessionVars, path, intervals, isAutoRefresh, uploadProgress, isUploading,
                   uploadTimers, orphanTimers, dashVars, logVars, fileVars, rdpVars, settings>>

\* Settings.resetSettings (its button is rendered while hasChanges): a toast
\* and setHasChanges(false)
ResetSettings ==
    /\ Rendered(path, isAuthenticated) = "Settings"
    /\ hasChanges
    /\ hasChanges' = FALSE
    /\ ev' = SettingsEvent("resetSettings", "", "")
    /\ UNCHANGED <<sessionVars, path, intervals, isAutoRefresh, uploadProgress, isUploading,
                   uploadTimers, orphanTimers, dashVars, logVars, fileVars, rdpVars, settings>>

\* a signed-in session with Settings on screen
InitSettings ==
    LET u == [username |-> "admin", totpEnabled |-> "true"] IN
    /\ lsToken = Some(1)
    /\ lsUser = Some(JSONstringify(u))
    /\ isAuthenticated = TRUE
    /\ user = Some(u)
    /\ loading = FALSE
    /\ path = "/settings"
    /\ requiresTOTP = FALSE
    /\ inflight = {}
    /\ navPending = FALSE
    /\ redirects = 0
    /\ ev = Event("goto")
    /\ intervals = {}
    /\ isAutoRefresh = TRUE
    /\ uploadProgress = 0
    /\ isUploading = FALSE
    /\ uploadTimers = 0
    /\ orphanTimers = 0
    /\ NewComponents(MockLogs(0))

NextSettings ==
    \/ \E key \in SettingKeys : \E value \in Inputs(key) : HandleSettingChange(key, value)
    \/ SaveSettings
    \/ ResetSettings

SpecSettings == InitSettings /\ [][NextSettings]_vars

\* =================================================================== claims
NoSession == Session(Null, Null, FALSE, Null)

Status(e) == e.resp[1].status

\* the last event is the response task of a login attempt the backend
\* answered with "second factor required": status 400 and x-require-totp
TotpRequiredAnswer(e) == e.op = "login" /\ Status(e) = 400 /\ e.resp[1].totp

\* C1: a login attempt answered "second factor required" makes login() return
\* requiresTOTP = true and success = false, and changes neither
\* isAuthenticated, user, authToken nor userData (so without a session before
\* the attempt there is none after it).
C1_SecondFactorRequired ==
    [][TotpRequiredAnswer(ev') =>
          /\ ev'.result[1].requiresTOTP = "true"
          /\ ev'.result[1].success = FALSE
          /\ UNCHANGED <<isAuthenticated, user, lsToken, lsUser>>]_vars

C1_Witness ==
    /\ TotpRequiredAnswer(ev)
    /\ ev.result[1].requiresTOTP = "true"
    /\ Cur = NoSession
    /\ requiresTOTP

\* C2: a login attempt the backend accepts makes login() return
\* {success: true}, sets isAuthenticated, stores the token of the answer
\* under authToken and the serialized profile under userData.
C2_AcceptedLogin ==
    (ev.op = "login" /\ Status(ev) = 200) =>
        /\ ev.result = Some(LoginResult(TRUE, "undefined", "undefined"))
        /\ isAuthenticated
        /\ lsToken = ev.resp[1].token
        /\ user # Null
        /\ ev.resp[1].user # Null => user = ev.resp[1].user
        /\ ev.resp[1].user = Null => user[1] \in {FallbackUser(n) : n \in Usernames}
        /\ lsUser = Some(JSONstringify(user[1]))

C2_Witness ==
    /\ ev.op = "login"
    /\ Status(ev) = 200
    /\ isAuthenticated
    /\ lsToken = Some(NumTokens)
    /\ lsUser = Some(JSONstringify([username |-> "admin", totpEnabled |-> "true"]))

\* C3: in every response task, whatever the endpoint, the response
\* interceptor on status 401 removes authToken and userData and requests the
\* navigation to /login (and both keys are still absent when the task ends);
\* on any other status it leaves both keys as they were and requests no
\* navigation.
C3_Interceptor401 ==
    [][ev'.op \in ResponseOps =>
          IF Status(ev') = 401
          THEN /\ ev'.store = <<Null, Null>>
               /\ lsToken' = Null /\ lsUser' = Null
               /\ navPending'
          ELSE /\ ev'.store = <<lsToken, lsUser>>
               /\ navPending' = navPending]_vars

C3_Witness ==
    /\ ev.op = "dashboard"
    /\ Status(ev) = 401
    /\ isAuthenticated /\ user # Null
    /\ lsToken = Null /\ lsUser = Null
    /\ navPending

\* C4: when a call is answered with 401 and the 401 branch of the interceptor
\* has already run while that call was in flight (for another call in flight
\* at the same time), the session is not cleared and the navigation not
\* requested a second time.
C4_RedirectOnce ==
    [][(ev'.op \in ResponseOps /\ Status(ev') = 401 /\ ev'.overlap)
          => redirects' = redirects]_vars

\* C5: logout() ends with isAuthenticated = false, user = null and both keys
\* absent, from every state; applying it to its own result changes nothing.
C5_LogoutClears ==
    /\ LogoutEffect(Cur) = NoSession
    /\ LogoutEffect(LogoutEffect(Cur)) = LogoutEffect(Cur)
    /\ ev.op = "logout" => Cur = NoSession

C5_Witness ==
    /\ ev.op = "logout"
    /\ Cur = NoSession
    /\ ev.toast = "logged out"
    /\ path = "/login"

\* C6: a step that removes authToken or userData leaves both absent.
C6_ClearedTogether ==
    [][((lsToken # Null /\ lsToken' = Null) \/ (lsUser # Null /\ lsUser' = Null))
          => (lsToken' = Null /\ lsUser' = Null)]_vars

\* a failed startup verification (no 401, so the interceptor did nothing) has
\* removed both keys
C6_Witness ==
    /\ ev.op = "verify"
    /\ Status(ev) = 500
    /\ ev.store[1] # Null /\ ev.store[2] # Null
    /\ lsToken = Null /\ lsUser = Null

\* C7: a stored authToken implies isAuthenticated.
C7_TokenImpliesAuthenticated == lsToken # Null => isAuthenticated

\* C8: authToken appears only in a successful login, and disappears only in
\* a logout or in a response task whose status is 401.
C8_SessionLifecycle ==
    [][/\ (lsToken = Null /\ lsToken' # Null) => (ev'.op = "login" /\ Status(ev') = 200)
       /\ (lsToken # Null /\ lsToken' = Null) =>
             \/ ev'.op = "logout"
             \/ (ev'.op \in ResponseOps /\ Status(ev') = 401)]_vars

\* a page load: the application starts again from its initial state
PageLoad(e) == e.op \in {"load", "redirected"}

C10_TotpDiscarded ==
    (ev.op = "login" /\ ev.result[1].requiresTOTP # "true") => ~requiresTOTP

\* a failed profile refresh: the response task of an updateUser() call whose
\* request did not succeed
RefreshFailed(e) == e.op = "update" /\ Status(e) # 200

\* C11 as stated: a failed profile refresh, whatever its cause, shows no
\* message and changes neither isAuthenticated, user, authToken nor userData.
C11_Original ==
    [][RefreshFailed(ev') =>
          /\ ev'.toast = "none"
          /\ UNCHANGED <<isAuthenticated, user, lsToken, lsUser>>]_vars

\* C11 as amended: a failed profile refresh shows no message and changes
\* neither isAuthenticated nor user; it leaves authToken and userData as they
\* were unless the answer is a 401, in which case the response interceptor
\* has removed both and requested the navigation to /login.
C11_RefreshFailure ==
    [][RefreshFailed(ev') =>
          /\ ev'.toast = "none"
          /\ UNCHANGED <<isAuthenticated, user>>
          /\ IF Status(ev') = 401
             THEN lsToken' = Null /\ lsUser' = Null /\ navPending'
             ELSE UNCHANGED <<lsToken, lsUser, navPending>>]_vars

C11_Witness ==
    /\ RefreshFailed(ev)
    /\ Status(ev) = 500
    /\ ev.toast = "none"
    /\ isAuthenticated /\ user # Null
    /\ lsToken # Null /\ lsUser # Null

\* a login attempt rejected for another reason than "second factor
\* required" (no response at all included)
LoginRefused(e) == e.op = "login" /\ Status(e) # 200 /\ ~TotpRequiredAnswer(e)

\* what login() returns for such an attempt: the backend's detail if the
\* answer has one, the default message otherwise
RefusedResult(e) ==
    LoginResult(FALSE, "false",
                IF Status(e) # 0 /\ e.resp[1].detail THEN "detail" ELSE "Authentication failed")

\* C12 as stated: a login attempt rejected for another reason than "second
\* factor required" returns {success: false, requiresTOTP: false, error} and
\* changes neither isAuthenticated, user, authToken nor userData.
C12_Original ==
    [][LoginRefused(ev') =>
          /\ ev'.result = Some(RefusedResult(ev'))
          /\ UNCHANGED <<isAuthenticated, user, lsToken, lsUser>>]_vars

\* C12 as amended: such an attempt returns that result and changes neither
\* isAuthenticated nor user; authToken and userData stay as they were unless
\* the answer is a 401, for which the response interceptor has removed both.
C12_LoginRefused ==
    [][LoginRefused(ev') =>
          /\ ev'.result = Some(RefusedResult(ev'))
          /\ UNCHANGED <<isAuthenticated, user>>
          /\ IF Status(ev') = 401
             THEN lsToken' = Null /\ lsUser' = Null
             ELSE UNCHANGED <<lsToken, lsUser>>]_vars

\* a signed-in user's new attempt fails without a response: the session stays
C12_Witness ==
    /\ LoginRefused(ev)
    /\ Status(ev) = 0
    /\ ev.result[1].error = "Authentication failed"
    /\ isAuthenticated /\ user # Null
    /\ lsToken # Null /\ lsUser # Null

\* the toasts shown with toast.error
ErrorToasts ==
    {"login error", "Failed to load dashboard data", "detail"} \cup {DefaultError(c) : c \in AccountCalls}

\* C13: a call of the signed-in application (any call but the login attempt
\* itself) that is answered with 401 shows no error notification.
C13_Silent401 ==
    [][(ev'.op \in ResponseOps \ {"login"} /\ Status(ev') = 401) => ev'.toast \notin ErrorToasts]_vars

\* the requests a step dispatches: those in flight after it that were not in
\* flight before it (whatever became of their awaiting code meanwhile)
Dispatched(before, after) ==
    {r \in after \ before : \A q \in before : [q EXCEPT !.live = r.live, !.done = r.done, !.overlap = r.overlap] # r}

\* C14: a request is dispatched with the header Authorization: Bearer t when
\* authToken holds t at that moment and without the header when no token is
\* stored, and dispatching a request changes neither authToken nor userData.
C14_BearerToken ==
    [][\A r \in Dispatched(inflight, inflight') :
          /\ lsToken # Null => r.auth = Some(<<"Bearer", lsToken[1]>>)
          /\ lsToken = Null => r.auth = Null
          /\ UNCHANGED <<lsToken, lsUser>>]_vars

\* the three requests of a dashboard round carry the stored token
C14_Witness ==
    /\ ev.op = "poll"
    /\ lsToken = Some(NumTokens)
    /\ \A e \in DashboardEndpoints :
          \E r \in inflight : r.ep = e /\ r.auth = Some(<<"Bearer", NumTokens>>)

\* C15: every interval timer a view started is cancelled by the time the
\* view is unmounted: the running timers belong to the view on screen, and
\* no tick runs for a view that is gone.
C15_TimersCancelled ==
    /\ \A c \in intervals : Rendered(path, isAuthenticated) = c
    /\ uploadTimers > 0 => Rendered(path, isAuthenticated) = "FileManager"
    /\ orphanTimers = 0
    /\ ev.op = "tick" => ev.mounted

\* a call of mockAuth.login has returned
MockReturned(e) == e.op = "mockAuth.login" /\ e.result # Null

\* the entries of the users table with this username and this password
Matching(e) ==
    {i \in 1..Len(e.users) : e.users[i].username = e.username /\ e.users[i].password = e.password}

\* C16: mockAuth.login answers, in this order: unknown username or wrong
\* password: "Invalid credentials"; else second factor on and no code:
\* requiresTOTP; else second factor on and a code other than 123456:
\* "Invalid TOTP code"; else success with a token and the user, whose
\* password member does not hold the password.  A wrong password never
\* yields requiresTOTP.
C16_MockLoginOrder ==
    MockReturned(ev) =>
        LET res == ev.result[1]
            noCode == ev.totpCode \in {Null, Some("")} IN
        /\ Matching(ev) = {} =>
              /\ res.success = FALSE /\ res.error = "Invalid credentials"
              /\ res.requiresTOTP # "true"
        /\ Matching(ev) # {} =>
              LET u == ev.users[CHOOSE i \in Matching(ev) : TRUE] IN
              IF u.totpEnabled /\ noCode
              THEN res.success = FALSE /\ res.requiresTOTP = "true"
              ELSE IF u.totpEnabled /\ ev.totpCode # Some("123456")
              THEN res.success = FALSE /\ res.error = "Invalid TOTP code" /\ res.requiresTOTP # "true"
              ELSE /\ res.success = TRUE
                   /\ res.token # Null
                   /\ res.user # Null
                   /\ res.user[1].username = ev.username
                   /\ res.user[1].password # u.password

\* the shipped administrator signs in with the right password and code
C16_Witness ==
    /\ MockReturned(ev)
    /\ ev.users[1].totpEnabled
    /\ ev.username = "admin" /\ ev.password = "admin123" /\ ev.totpCode = Some("123456")
    /\ ev.result[1].success
    /\ ev.result[1].token = Some(<<"mock_jwt_token_", MaxNow>>)
    /\ ev.result[1].user[1].password = "undefined"

\* what a mutation operation is to return for the answer of event e: success
\* for a 200, else the backend's detail or the operation's default message
Expected(call, e) ==
    IF Status(e) = 200 THEN [success |-> TRUE, error |-> "undefined"]
    ELSE IF Status(e) # 0 /\ e.resp[1].detail THEN [success |-> FALSE, error |-> "detail"]
    ELSE [success |-> FALSE,
          error |-> CASE call = "changePassword" -> "Failed to change password"
                      [] call = "setup2FA" -> "Failed to setup 2FA"
                      [] call = "enable2FA" -> "Failed to enable 2FA"]

\* C17: changePassword and setup2FA return {success: true} when their request
\* succeeds and {success: false, error} when it fails, error being the
\* backend's detail or the operation's default; so does enable2FA when its
\* enable request fails.  When the enable request succeeds, enable2FA
\* requests the profile refresh (and only then), and returns success whatever
\* the answer to the refresh is.
C17_MutationResults ==
    [][/\ ev'.op \in {"changePassword", "setup2FA"} => ev'.result = Some(Expected(ev'.op, ev'))
       /\ (ev'.op = "enable2FA" /\ Status(ev') # 200) => ev'.result = Some(Expected("enable2FA", ev'))
       /\ (ev'.op = "enable2FA" /\ Status(ev') = 200) =>
             /\ ev'.result = Null
             /\ \E r \in Dispatched(inflight, inflight') : r.caller = "enable2FA" /\ r.ep = "/auth/me"
       /\ (\E r \in Dispatched(inflight, inflight') : r.caller = "enable2FA" /\ r.ep = "/auth/me")
             => (ev'.op = "enable2FA" /\ Status(ev') = 200)
       /\ ev'.op = "enable2FA refresh" => ev'.result = Some([success |-> TRUE, error |-> "undefined"])]_vars

\* enable2FA has returned success although its profile refresh failed
C17_Witness ==
    /\ ev.op = "enable2FA refresh"
    /\ Status(ev) = 500
    /\ ev.result[1].success
    /\ ev.toast = "Two-factor authentication enabled"

\* C18: userData is stored only while authToken is stored, and without a
\* session in local storage there is no in-memory user that a profile
\* refresh put there after a logout.
C18_UserDataNeedsToken ==
    /\ lsUser # Null => lsToken # Null
    /\ (ev.op \in {"update", "enable2FA refresh"} /\ ~isAuthenticated) => user = Null

\* C19: a 401 answer to a request that carried the token of an earlier
\* session removes the authToken and userData of the session stored now: the
\* interceptor does not compare the two tokens.
C19_Stale401 ==
    [][(ev'.op \in ResponseOps /\ Status(ev') = 401 /\ ev'.stale) =>
          /\ lsToken # Null
          /\ ev'.store = <<Null, Null>>
          /\ lsToken' = Null /\ lsUser' = Null
          /\ navPending']_vars

\* a dashboard request of the first session is answered 401 after the logout
\* and the second login: the second session is still in memory, its keys gone
C19_Witness ==
    /\ ev.op = "dashboard"
    /\ Status(ev) = 401
    /\ ev.stale
    /\ isAuthenticated /\ user # Null
    /\ lsToken = Null /\ lsUser = Null

\* the views of the protected shell
ProtectedViews == {"Dashboard", "RDPClient", "FileManager", "SessionMonitor", "LogsViewer", "Settings"}

\* C20: while isAuthenticated is false the location is /login, the login
\* page is what is rendered, and no view of the protected shell is on screen
\* or has a timer running.
C20_GuardedViews ==
    ~isAuthenticated =>
        /\ path = "/login"
        /\ Rendered(path, isAuthenticated) = "LoginPage"
        /\ Rendered(path, isAuthenticated) \notin ProtectedViews
        /\ intervals = {}

\* a visitor without a session asked for a protected location (the only
\* location change open to them) and is at /login
C20_Witness ==
    /\ ev.op = "goto"
    /\ ~isAuthenticated
    /\ lsToken = Null
    /\ path = "/login"
    /\ intervals = {}

\* C21: once isAuthenticated is true the protected shell comes on screen
\* (unless the session ends first), whatever the user does or does not do.
C21_ShellShown ==
    isAuthenticated ~> (~isAuthenticated \/ Rendered(path, isAuthenticated) \in ProtectedViews)

\* C22: a page load without a stored token leaves loading false and issues
\* no request; with a stored token it issues exactly one GET /auth/me; loading
\* is false after the answer to that request and after the answer to every
\* login attempt; and loading, once true, becomes false again.
C22_LoadingEnds ==
    /\ [](PageLoad(ev) =>
            IF lsToken = Null
            THEN ~loading /\ inflight = {}
            ELSE /\ loading
                 /\ Cardinality(inflight) = 1
                 /\ \A r \in inflight : r.caller = "verifyToken" /\ r.ep = "/auth/me")
    /\ [](ev.op \in {"login", "verify"} => ~loading)
    /\ (loading ~> ~loading)

\* the startup verification failed and the login button is enabled again
C22_Witness ==
    /\ ev.op = "verify"
    /\ Status(ev) = 500
    /\ ~loading
    /\ inflight = {}

\* C23: right after an operation that replaces the in-memory user (login,
\* startup verification, updateUser) has succeeded, the userData key holds
\* the JSON serialization of that user.
C23_UserDataInSync ==
    (isAuthenticated /\ ev.op \in {"login", "verify", "update"} /\ Status(ev) = 200)
        => (user # Null /\ lsUser = Some(JSONstringify(user[1])))

\* what Dashboard displays
Displayed(d) == <<d.stats, d.metrics, d.sessions>>

\* the displayed values all come from call n of loadDashboardData
FromPoll(d, n) == d.stats = Some(n) /\ d.metrics = Some(n) /\ d.sessions.poll = Some(n)

\* C24: the displayed stats, metrics and sessions always come from one and
\* the same poll (or are all still initial); they change only when the last
\* of a poll's three requests succeeds, all three together; a failed answer
\* leaves them alone; the poll that completes last is the one shown, also
\* when it overtook or was overtaken by another; loading is false after a
\* poll completes either way.
C24_OnePoll ==
    /\ [](dashboard.stats = dashboard.metrics /\ dashboard.sessions.poll = dashboard.stats)
    /\ [][/\ Displayed(dashboard') # Displayed(dashboard) =>
                \/ /\ ev'.op = "dashboard"
                   /\ Status(ev') = 200
                   /\ \E r \in inflight :
                         /\ inflight' = inflight \ {r}
                         /\ FromPoll(dashboard', r.round)
                \/ ev'.op = "redirected" /\ dashboard' = NewDashboard
          /\ (ev'.op = "dashboard" /\ Status(ev') # 200) => Displayed(dashboard') = Displayed(dashboard)
          /\ (ev'.op = "dashboard" /\ ev'.toast # "none") => ~dashboard'.loading
          /\ \A r \in inflight :
                (/\ ev'.op = "dashboard"
                 /\ Status(ev') = 200
                 /\ inflight' = inflight \ {r}
                 /\ ~r.done
                 /\ \A q \in inflight' : q.round # r.round)
                    => FromPoll(dashboard', r.round) /\ ~dashboard'.loading]_vars

\* the second poll overtook the first: its values are shown while requests
\* of the first are still awaited
C24_Witness ==
    /\ FromPoll(dashboard, 2)
    /\ ~dashboard.loading
    /\ \E q \in inflight : q.round = 1 /\ ~q.done

\* the LogsViewer interval has just fired
LogsTicked(e) == e.op = "tick" /\ e.owner = "LogsViewer"

\* C25: the log list never holds more than 100 entries; a tick of the
\* LogsViewer interval puts one new entry in front of the first 99 of the
\* old list; while auto-refresh is paused the list of the mounted view only
\* changes by being cleared; clearLogs leaves it empty.
C25_LogWindow ==
    /\ [](Len(logs) <= LogsKept + 1)
    /\ [][/\ LogsTicked(ev') =>
                /\ isAutoRefresh
                /\ Len(logs') = (IF Len(logs) <= LogsKept THEN Len(logs) + 1 ELSE LogsKept + 1)
                /\ \A i \in 1..Len(logs) : logs[i] # logs'[1]
                /\ \A i \in 2..Len(logs') : logs'[i] = logs[i - 1]
          /\ (~isAutoRefresh /\ path' = path) => logs' \in {logs, <<>>}
          /\ ev'.op = "clearLogs" => logs' = <<>>
          /\ logs' # logs => (LogsTicked(ev') \/ ev'.op \in {"clearLogs", "goto", "logout", "load", "redirected"})]_vars

\* a tick on a full list: the newest entry is in front, the oldest entry of
\* the fixture is gone
C25_Witness ==
    /\ LogsTicked(ev)
    /\ Len(mockLogs) = LogsKept + 1
    /\ Len(logs) = LogsKept + 1
    /\ logs[1] = clock
    /\ logs[Len(logs)] # mockLogs[Len(mockLogs)]

\* the names in a list
Names(list) == {list[i] : i \in DOMAIN list}

NoDuplicates(list) == \A i, j \in DOMAIN list : list[i] = list[j] => i = j

\* the files whose names are not selected, in their order
RECURSIVE Kept(_, _)
Kept(list, selected) ==
    IF list = <<>> THEN <<>>
    ELSE (IF Head(list) \in Names(selected) THEN <<>> ELSE <<Head(list)>>) \o Kept(Tail(list), selected)

\* C27: selectedFiles never holds a name twice and only holds names of
\* listed files; a click on a file toggles its name and a second click gives
\* back the same set of selected names; handleDelete removes the files whose
\* names are selected, keeps the others in place and empties the selection;
\* handleDownload empties the selection and leaves the list alone.
C27_Selection ==
    /\ [](NoDuplicates(selectedFiles) /\ Names(selectedFiles) \subseteq Names(files))
    /\ [](\A fileName \in Names(files) :
             Names(ToggleSelected(ToggleSelected(selectedFiles, fileName), fileName))
                = Names(selectedFiles))
    /\ [][/\ ev'.op = "select" =>
                /\ Names(selectedFiles') =
                      (IF ev'.fileName \in Names(selectedFiles)
                       THEN Names(selectedFiles) \ {ev'.fileName}
                       ELSE Names(selectedFiles) \cup {ev'.fileName})
                /\ files' = files
          /\ ev'.op = "delete" => (files' = Kept(files, selectedFiles) /\ selectedFiles' = <<>>)
          /\ ev'.op = "download" => (files' = files /\ selectedFiles' = <<>>)]_vars

\* an uploaded file has the name of a listed one; both were selected by one
\* click and deleted together, the other file stayed
C27_Witness ==
    /\ ev.op = "delete"
    /\ files = <<"b">>
    /\ selectedFiles = <<>>
    /\ uploadTimers = 0
    /\ uploadProgress = ProgressDone

\* C26: every upload completes.  The progress is one of 0, 10, ..., 100; the
\* tick that finds it at 100 cancels its interval, clears isUploading and
\* appends the files of its upload; and unless new uploads keep being
\* started, a time comes after which no upload interval is running and
\* isUploading is false.
C26_UploadsComplete ==
    /\ [](uploadProgress \in {k * ProgressStep : k \in 0..(ProgressDone \div ProgressStep)})
    /\ [][(ev'.op = "tick" /\ ev'.owner = "FileManager" /\ ev'.mounted /\ uploadProgress >= ProgressDone)
            => /\ uploadTimers' = uploadTimers - 1
               /\ ~isUploading'
               /\ \E i \in DOMAIN uploads : files' = files \o uploads[i] /\ uploads' = Without(uploads, i)]_vars
    /\ ([]<>(ev.op = "upload") \/ <>[](uploadTimers + orphanTimers = 0 /\ ~isUploading))

\* C28: handleConnect is a toggle with a guarded connecting phase.  At most
\* one connection sequence is in progress at any time; a sequence shows its
\* six notifications in order; isConnected becomes true only on the last
\* notification of a sequence, which also clears isConnecting; a click while
\* connected disconnects at once and starts no sequence.
C28_OneSequence ==
    /\ [](Len(connects) <= 1)
    /\ [][/\ (isConnected' /\ ~isConnected) =>
                (ev'.op = "step" /\ ev'.step = ConnectSteps /\ ~isConnecting')
          /\ (ev'.op = "disconnect") => (~isConnected' /\ connects' = connects)
          /\ (ev'.op = "connect") => (isConnecting' /\ ~isConnected')]_vars

\* C29: resetSettings puts every setting back to its initial value and
\* clears hasChanges; hasChanges is true after handleSettingChange and false
\* after saveSettings and resetSettings; handleSettingChange(key, value)
\* sets the setting key to value and changes no other setting.
C29_ResetRestoresDefaults ==
    [][/\ ev'.op = "resetSettings" => (settings' = DefaultSettings /\ ~hasChanges')
       /\ ev'.op = "saveSettings" => ~hasChanges'
       /\ ev'.op = "handleSettingChange" =>
             /\ hasChanges'
             /\ settings'[ev'.key] = ev'.value
             /\ \A k \in SettingKeys \ {ev'.key} : settings'[k] = settings[k]]_vars

====
